---- MODULE Spec2Model ----
(***************************************************************************)
(* The interactive setup script of the starter (src/lib/db/schema.ts,      *)
(* lines 151-362): preflight of the Stripe CLI, choice and provisioning of *)
(* the data store, collection of the Stripe secret key, registration of    *)
(* the webhook, generation of AUTH_SECRET and assembly of the environment  *)
(* mapping.                                                                *)
(*                                                                         *)
(* A JavaScript string is modelled as a sequence of one-character strings. *)
(* The names of the environment variables are kept as single tokens: a key *)
(* never contains "=", a line terminator or white space.                   *)
(***************************************************************************)
EXTENDS Integers, Sequences, FiniteSets, TLC

(***************************************************************************)
(* Characters and the string primitives of the runtime the script uses.    *)
(***************************************************************************)
UpperCase == <<"A", "B", "C", "D", "E", "F", "G", "H", "I", "J", "K", "L", "M",
               "N", "O", "P", "Q", "R", "S", "T", "U", "V", "W", "X", "Y", "Z">>

LowerCase == <<"a", "b", "c", "d", "e", "f", "g", "h", "i", "j", "k", "l", "m",
               "n", "o", "p", "q", "r", "s", "t", "u", "v", "w", "x", "y", "z">>

Digits == <<"0", "1", "2", "3", "4", "5", "6", "7", "8", "9">>

Range(s) == {s[i] : i \in DOMAIN s}

\* String.prototype.toLowerCase on one character.
ToLowerChar(c) ==
    IF \E i \in DOMAIN UpperCase : UpperCase[i] = c
    THEN LowerCase[CHOOSE i \in DOMAIN UpperCase : UpperCase[i] = c]
    ELSE c

\* String.prototype.toLowerCase.
toLowerCase(s) == [i \in DOMAIN s |-> ToLowerChar(s[i])]

\* The white space and line terminators String.prototype.trim removes
\* (those that occur in the outputs considered).
WhiteSpace == {" ", "\t", "\n", "\r", "\f"}

\* The index of the first non-blank character of s, Len(s) + 1 if none.
FirstNonBlank(s) ==
    IF \E i \in DOMAIN s : s[i] \notin WhiteSpace
    THEN CHOOSE i \in DOMAIN s :
            /\ s[i] \notin WhiteSpace
            /\ \A j \in 1..(i - 1) : s[j] \in WhiteSpace
    ELSE Len(s) + 1

\* The index of the last non-blank character of s, 0 if none.
LastNonBlank(s) ==
    IF \E i \in DOMAIN s : s[i] \notin WhiteSpace
    THEN CHOOSE i \in DOMAIN s :
            /\ s[i] \notin WhiteSpace
            /\ \A j \in (i + 1)..Len(s) : s[j] \in WhiteSpace
    ELSE 0

\* A variant of trim that removes trailing white space only.
trim_EndOnly(s) == SubSeq(s, 1, LastNonBlank(s))

\* String.prototype.trim, as used on the output of `turso db show --url`.
trim(s) == SubSeq(s, FirstNonBlank(s), LastNonBlank(s))

\* A variant of IsAlnum for a pattern that stops only at a space.
IsAlnum_NotSpace(c) == c # " "

\* The character class [a-zA-Z0-9] of the webhook pattern.
IsAlnum(c) == c \in Range(UpperCase) \cup Range(LowerCase) \cup Range(Digits)

\* The literal prefix of the webhook pattern.
WhsecPrefix == <<"w", "h", "s", "e", "c", "_">>

\* The positions at which /whsec_[a-zA-Z0-9]+/ can start matching in s:
\* the prefix, followed by at least one character of the class.
MatchStarts(s) ==
    {i \in DOMAIN s :
        /\ i + Len(WhsecPrefix) <= Len(s)
        /\ SubSeq(s, i, i + Len(WhsecPrefix) - 1) = WhsecPrefix
        /\ IsAlnum(s[i + Len(WhsecPrefix)])}

\* Whether stdout.match(/whsec_[a-zA-Z0-9]+/) is non-null.
HasMatch(s) == MatchStarts(s) # {}

Min(S) == CHOOSE x \in S : \A y \in S : x <= y

\* match[0]: the leftmost match, extended greedily over the class.
\* Only used when HasMatch(s).
MatchText(s) ==
    LET i == Min(MatchStarts(s))
        j == CHOOSE k \in (i + Len(WhsecPrefix))..Len(s) :
                /\ \A m \in (i + Len(WhsecPrefix))..k : IsAlnum(s[m])
                /\ (k = Len(s) \/ ~IsAlnum(s[k + 1]))
    IN  SubSeq(s, i, j)

HexDigits == <<"0", "1", "2", "3", "4", "5", "6", "7", "8", "9",
               "a", "b", "c", "d", "e", "f">>

\* A variant of ByteToHex that does not pad a byte below 16 to two digits.
ByteToHex_NoPad(b) ==
    IF b < 16 THEN <<HexDigits[b + 1]>>
    ELSE <<HexDigits[(b \div 16) + 1], HexDigits[(b % 16) + 1]>>

\* Buffer.prototype.toString("hex") on one byte.
ByteToHex(b) == <<HexDigits[(b \div 16) + 1], HexDigits[(b % 16) + 1]>>

RECURSIVE ToHex(_)
\* Buffer.prototype.toString("hex").
ToHex(bytes) ==
    IF bytes = <<>> THEN <<>>
    ELSE ByteToHex(Head(bytes)) \o ToHex(Tail(bytes))

\* The number of random bytes drawn for AUTH_SECRET.
AuthSecretBytes == 32

\* generateAuthSecret, given the bytes crypto.randomBytes returned.
generateAuthSecret(bytes) == ToHex(bytes)

\* The URL of the local SQLite file.
LocalDbUrl == <<"f", "i", "l", "e", ":", "d", "e", "v", ".", "d", "b">>

\* The base URL written to the mapping.
BASE_URL == <<"h", "t", "t", "p", ":", "/", "/", "l", "o", "c", "a", "l", "h", "o", "s", "t", ":", "3", "0", "0", "0">>

RECURSIVE Join_TrailingNewline(_)
\* A variant of Join that ends every line, the last one included, with a
\* newline.
Join_TrailingNewline(lines) ==
    IF lines = <<>> THEN <<>>
    ELSE lines[1] \o <<"\n">> \o Join_TrailingNewline(Tail(lines))

RECURSIVE Join(_)
\* Array.prototype.join("\n") on a sequence of strings.
Join(lines) ==
    IF lines = <<>> THEN <<>>
    ELSE IF Len(lines) = 1 THEN lines[1]
    ELSE lines[1] \o <<"\n">> \o Join(Tail(lines))

\* envContent of writeEnvFile: one KEY=value line per entry, in insertion
\* order, joined by newlines. An entry is a pair <<key, value>>.
envContent(vars) ==
    Join([i \in DOMAIN vars |-> <<vars[i][1], "=">> \o vars[i][2]])

\* The keys of a mapping, in insertion order.
Keys(vars) == [i \in DOMAIN vars |-> vars[i][1]]

\* Whether the mapping has an entry for key k.
HasKey(vars, k) == \E i \in DOMAIN vars : vars[i][1] = k

\* The keys that head a line of a serialized artifact.
FileKeys(content) ==
    {content[i] : i \in {j \in DOMAIN content :
        /\ j < Len(content)
        /\ content[j + 1] = "="
        /\ (j = 1 \/ content[j - 1] = "\n")}}

(***************************************************************************)
(* Bounds and the inputs considered: operator answers, outputs of the      *)
(* external commands, the random bytes and the platform.                   *)
(***************************************************************************)
\* The number of consecutive invocations of the script considered.
MaxRuns == 2

\* The value of a binding that holds no string (JavaScript undefined).
Undefined == <<"undefined">>

\* Truthiness of a string-or-undefined value.
Truthy(v) == v # Undefined /\ v # <<>>

\* Answers to "Have you completed the authentication? (y/n): ".
YesNoAnswers == {<<"y">>, <<"Y">>, <<"n">>, <<"y", "e", "s">>, <<>>}

\* Answers to the (L/R) data-store question.
DbChoiceAnswers == {<<"l">>, <<"L">>, <<"R">>, <<"r">>, <<"l", "l">>, <<"x">>, <<>>}

\* Answers to "Enter a name for your Turso database: ".
DbNameAnswers == {<<"d", "b">>, <<>>}

\* Outputs of a successful `turso db show <name> --url`.
UrlOutputs ==
    {<<" ", " ", "l", "i", "b", "s", "q", "l", ":", "/", "/", "e", "x", "a", "m", "p", "l", "e", ".", "t", "u", "r", "s", "o", ".", "i", "o", " ", " ", "\n">>,
     <<"l", "i", "b", "s", "q", "l", ":", "/", "/", "a", ".", "i", "o", "\n">>,
     <<"l", "i", "b", "s", "q", "l", ":", "/", "/", "a", ".", "i", "o", "\n", "l", "i", "b", "s", "q", "l", ":", "/", "/", "b", ".", "i", "o", "\n">>,
     <<" ", "\t", "\n">>,
     <<>>}

\* Answers to "Enter your Turso authentication token: ".
AuthTokenAnswers == {<<"t", "o", "k", "1">>, <<>>}

\* Answers to "Enter your Stripe Secret Key: ".
SecretKeyAnswers == {<<"s", "k", "_", "t", "e", "s", "t", "_", "1">>, <<>>}

\* Outputs of a successful `stripe listen --print-secret`.
ListenOutputs ==
    {<<"w", "h", "s", "e", "c", "_", "a", "1", "B", "2", "\n">>,
     <<"R", "e", "a", "d", "y", "!", " ", "w", "h", "s", "e", "c", "_", "A", "b", "9", " ", "(", "^", "C", ")", "\n">>,
     <<"w", "h", "s", "e", "c", "_", "x", " ", "w", "h", "s", "e", "c", "_", "y">>,
     <<"w", "h", "s", "e", "c", "_">>,
     <<"w", "h", "s", "e", "c", "-", "a", "b", "c">>,
     <<>>}

\* Values of crypto.randomBytes(32).
RandomSamples ==
    {[i \in 1..AuthSecretBytes |-> b] : b \in {0, 10, 255}}
        \cup {[i \in 1..AuthSecretBytes |-> (i * 37) % 256]}

\* Values of os.platform().
Platforms == {"linux", "win32"}

\* An artifact left in the working directory by an earlier configuration
\* that used a remote database.
OldEnvVars ==
    << <<"TURSO_DATABASE_URL", <<"l", "i", "b", "s", "q", "l", ":", "/", "/", "o", "l", "d", ".", "i", "o">>>>,
       <<"STRIPE_SECRET_KEY", <<"s", "k", "_", "o", "l", "d">>>>,
       <<"STRIPE_WEBHOOK_SECRET", <<"w", "h", "s", "e", "c", "_", "o", "l", "d">>>>,
       <<"BASE_URL", BASE_URL>>,
       <<"AUTH_SECRET", ToHex(<<1, 2>>)>>,
       <<"TURSO_AUTH_TOKEN", <<"o", "l", "d", "t", "o", "k">>>> >>

\* The states of the file .env of the working directory before a run.
InitialEnvFiles ==
    {[exists |-> FALSE, content |-> <<>>],
     [exists |-> TRUE, content |-> envContent(OldEnvVars)]}

(***************************************************************************)
(* The state.                                                              *)
(***************************************************************************)
VARIABLES
    pc,                     \* the point main has reached
    exitCode,               \* the exit status of the process
    mainPromise,            \* "pending", "fulfilled" or "rejected"
    cmds,                   \* the external commands run, with result and stdout
    prompts,                \* the questions asked, with the answers
    log,                    \* the lines printed, <<stream, text>>
    dbChoice,               \* getTursoDatabaseInfo: dbChoice
    dbName,                 \* getTursoDatabaseInfo: dbName
    TURSO_DATABASE_URL,     \* main: url of the data store
    isRemote,               \* main: isRemote
    TURSO_AUTH_TOKEN,       \* main: authToken
    STRIPE_SECRET_KEY,      \* main
    STRIPE_WEBHOOK_SECRET,  \* main
    AUTH_SECRET,            \* main
    randomBytes,            \* generateAuthSecret: the bytes crypto.randomBytes returned
    envVars,                \* main: the mapping, a sequence of <<key, value>>
    envFile,                \* the file .env of the working directory
    envFileAtStart,         \* the file .env when the current run started
    run,                    \* the number of the current run
    prevOutcome             \* how the previous run ended

vars == <<pc, exitCode, mainPromise, cmds, prompts, log, dbChoice, dbName,
          TURSO_DATABASE_URL, isRemote, TURSO_AUTH_TOKEN, STRIPE_SECRET_KEY,
          STRIPE_WEBHOOK_SECRET, AUTH_SECRET, randomBytes, envVars, envFile,
          envFileAtStart, run, prevOutcome>>

\* The bindings of main and of getTursoDatabaseInfo.
locals == <<dbChoice, dbName, TURSO_DATABASE_URL, isRemote, TURSO_AUTH_TOKEN,
            STRIPE_SECRET_KEY, STRIPE_WEBHOOK_SECRET, AUTH_SECRET, randomBytes, envVars>>

\* What lies outside the process and its run.
outside == <<envFile, envFileAtStart, run, prevOutcome>>

\* The state of a process that has just been started.
FreshProcess ==
    /\ pc = "checkStripeCLI"
    /\ exitCode = 0
    /\ mainPromise = "pending"
    /\ cmds = <<>>
    /\ prompts = <<>>
    /\ log = <<>>
    /\ dbChoice = Undefined
    /\ dbName = Undefined
    /\ TURSO_DATABASE_URL = Undefined
    /\ isRemote = FALSE
    /\ TURSO_AUTH_TOKEN = Undefined
    /\ STRIPE_SECRET_KEY = Undefined
    /\ STRIPE_WEBHOOK_SECRET = Undefined
    /\ AUTH_SECRET = Undefined
    /\ randomBytes = <<>>
    /\ envVars = <<>>

Init ==
    /\ FreshProcess
    /\ envFile \in InitialEnvFiles
    /\ envFileAtStart = envFile
    /\ run = 1
    /\ prevOutcome = "none"

(***************************************************************************)
(* Effects shared by the steps.                                            *)
(***************************************************************************)
\* execAsync(cmd): the command is run with the given argument and exits
\* with success or failure, having written stdout.
Exec(cmd, arg, ok, stdout) ==
    cmds' = Append(cmds, [cmd |-> cmd, arg |-> arg, ok |-> ok, stdout |-> stdout])

\* question(query): the query is shown and the operator's line is read.
Ask(query, answer) ==
    prompts' = Append(prompts, [query |-> query, answer |-> answer])

\* console.log and console.error: the given lines are printed.
ConsoleOut(lines) == log' = log \o lines

\* process.exit(code): the process stops at once.
ProcessExit(code) ==
    /\ pc' = "exited"
    /\ exitCode' = code
    /\ UNCHANGED mainPromise

\* The step ends at an await and main resumes at `next`.
Goto(next) ==
    /\ pc' = next
    /\ UNCHANGED <<exitCode, mainPromise>>

(***************************************************************************)
(* checkStripeCLI.                                                         *)
(***************************************************************************)
\* A variant of StripeNotInstalled that prints and returns instead of
\* stopping the process.
StripeNotInstalled_NoExit ==
    /\ ConsoleOut(<< <<"log", "Step 1: Checking if Stripe CLI is installed and authenticated...">>,
                     <<"error", "Stripe CLI is not installed. Please install it and try again.">> >>)
    /\ Goto("getTursoDatabaseInfo")

\* The outer catch block: the version probe failed.
StripeNotInstalled ==
    /\ ConsoleOut(<< <<"log", "Step 1: Checking if Stripe CLI is installed and authenticated...">>,
                     <<"error", "Stripe CLI is not installed. Please install it and try again.">>,
                     <<"log", "To install Stripe CLI, follow these steps:">>,
                     <<"log", "1. Visit: https://docs.stripe.com/stripe-cli">>,
                     <<"log", "2. Download and install the Stripe CLI for your operating system">>,
                     <<"log", "3. After installation, run: stripe login">>,
                     <<"log", "After installation and authentication, please run this setup script again.">> >>)
    /\ ProcessExit(1)

\* await execAsync("stripe --version")
StripeVersionProbe ==
    /\ pc = "checkStripeCLI"
    /\ \E ok \in BOOLEAN :
        /\ Exec("stripe --version", <<>>, ok, <<>>)
        /\ IF ok
           THEN /\ ConsoleOut(<< <<"log", "Step 1: Checking if Stripe CLI is installed and authenticated...">>,
                                 <<"log", "Stripe CLI is installed.">> >>)
                /\ Goto("stripeAuthProbe")
           ELSE StripeNotInstalled
    /\ UNCHANGED <<prompts, locals, outside>>

\* await execAsync("stripe config --list"), first time
StripeAuthProbe ==
    /\ pc = "stripeAuthProbe"
    /\ \E ok \in BOOLEAN :
        /\ Exec("stripe config --list", <<>>, ok, <<>>)
        /\ IF ok
           THEN /\ ConsoleOut(<< <<"log", "Stripe CLI is authenticated.">> >>)
                /\ Goto("getTursoDatabaseInfo")
           ELSE /\ ConsoleOut(<< <<"log", "Stripe CLI is not authenticated or the authentication has expired.">>,
                                 <<"log", "Please run: stripe login">> >>)
                /\ Goto("stripeAuthQuestion")
    /\ UNCHANGED <<prompts, locals, outside>>

\* A variant of StripeLoginDeclined that goes on to the verification.
StripeLoginDeclined_NoExit ==
    /\ ConsoleOut(<< <<"log", "Please authenticate with Stripe CLI and run this script again.">> >>)
    /\ Goto("stripeAuthVerify")

\* The operator did not answer y: answer.toLowerCase() !== "y".
StripeLoginDeclined ==
    /\ ConsoleOut(<< <<"log", "Please authenticate with Stripe CLI and run this script again.">> >>)
    /\ ProcessExit(1)

\* await question("Have you completed the authentication? (y/n): ")
StripeAuthQuestion ==
    /\ pc = "stripeAuthQuestion"
    /\ \E answer \in YesNoAnswers :
        /\ Ask("Have you completed the authentication? (y/n): ", answer)
        /\ IF toLowerCase(answer) # <<"y">>
           THEN StripeLoginDeclined
           ELSE /\ Goto("stripeAuthVerify")
                /\ UNCHANGED log
    /\ UNCHANGED <<cmds, locals, outside>>

\* A variant of StripeVerifyFailed that asks the operator again, a few
\* times, before it gives up.
StripeVerifyFailed_AskAgain ==
    /\ ConsoleOut(<< <<"error", "Failed to verify Stripe CLI authentication. Please try again.">> >>)
    /\ IF Len(prompts) < 3
       THEN Goto("stripeAuthQuestion")
       ELSE ProcessExit(1)

\* The inner catch block: the probe failed again after the operator
\* confirmed the login.
StripeVerifyFailed ==
    /\ ConsoleOut(<< <<"error", "Failed to verify Stripe CLI authentication. Please try again.">> >>)
    /\ ProcessExit(1)

\* await execAsync("stripe config --list"), after the operator confirmed
StripeAuthVerify ==
    /\ pc = "stripeAuthVerify"
    /\ \E ok \in BOOLEAN :
        /\ Exec("stripe config --list", <<>>, ok, <<>>)
        /\ IF ok
           THEN /\ ConsoleOut(<< <<"log", "Stripe CLI authentication confirmed.">> >>)
                /\ Goto("getTursoDatabaseInfo")
           ELSE StripeVerifyFailed
    /\ UNCHANGED <<prompts, locals, outside>>

(***************************************************************************)
(* getTursoDatabaseInfo and checkTursoCLI.                                 *)
(***************************************************************************)
\* A variant of IsLocalChoice that compares without toLowerCase.
IsLocalChoice_CaseSensitive(choice) == choice = <<"l">>

\* A variant of IsLocalChoice that takes every answer but r and R as local.
IsLocalChoice_NotRemote(choice) == toLowerCase(choice) # <<"r">>

\* dbChoice.toLowerCase() === "l"
IsLocalChoice(choice) == toLowerCase(choice) = <<"l">>

\* await question("... local SQLite file (L) or a remote Turso database (R)? (L/R): ")
DbChoiceQuestion ==
    /\ pc = "getTursoDatabaseInfo"
    /\ ConsoleOut(<< <<"log", "Step 2: Setting up Database">> >>)
    /\ \E answer \in DbChoiceAnswers :
        /\ Ask("Do you want to use a local SQLite file (L) or a remote Turso database (R)? (L/R): ", answer)
        /\ dbChoice' = answer
        /\ IF IsLocalChoice(answer)
           THEN /\ TURSO_DATABASE_URL' = LocalDbUrl
                /\ isRemote' = FALSE
                /\ TURSO_AUTH_TOKEN' = Undefined
                /\ Goto("getStripeSecretKey")
           ELSE /\ UNCHANGED <<TURSO_DATABASE_URL, isRemote, TURSO_AUTH_TOKEN>>
                /\ Goto("checkTursoCLI")
    /\ UNCHANGED <<cmds, dbName, STRIPE_SECRET_KEY, STRIPE_WEBHOOK_SECRET,
                   AUTH_SECRET, randomBytes, envVars, outside>>

\* A variant of TursoNotInstalled that prints and returns to
\* getTursoDatabaseInfo instead of stopping the process.
TursoNotInstalled_NoExit ==
    /\ ConsoleOut(<< <<"log", "Checking if Turso CLI is installed...">>,
                     <<"error", "Turso CLI is not installed. Please install it and try again.">> >>)
    /\ Goto("dbNameQuestion")

\* The catch block of checkTursoCLI: the version probe failed.
TursoNotInstalled ==
    /\ ConsoleOut(<< <<"log", "Checking if Turso CLI is installed...">>,
                     <<"error", "Turso CLI is not installed. Please install it and try again.">>,
                     <<"log", "To install Turso CLI, follow these steps:">>,
                     <<"log", "1. Visit: https://docs.turso.tech/reference/turso-cli">>,
                     <<"log", "2. Follow the installation instructions for your operating system">>,
                     <<"log", "After installation, please run this setup script again.">> >>)
    /\ ProcessExit(1)

\* checkTursoCLI: await execAsync("turso --version")
CheckTursoCLI ==
    /\ pc = "checkTursoCLI"
    /\ \E ok \in BOOLEAN :
        /\ Exec("turso --version", <<>>, ok, <<>>)
        /\ IF ok
           THEN /\ ConsoleOut(<< <<"log", "Checking if Turso CLI is installed...">>,
                                 <<"log", "Turso CLI is installed.">> >>)
                /\ Goto("dbNameQuestion")
           ELSE TursoNotInstalled
    /\ UNCHANGED <<prompts, locals, outside>>

\* await question("Enter a name for your Turso database: ")
DbNameQuestion ==
    /\ pc = "dbNameQuestion"
    /\ \E answer \in DbNameAnswers :
        /\ Ask("Enter a name for your Turso database: ", answer)
        /\ dbName' = answer
    /\ Goto("tursoDbCreate")
    /\ UNCHANGED <<cmds, log, dbChoice, TURSO_DATABASE_URL, isRemote,
                   TURSO_AUTH_TOKEN, STRIPE_SECRET_KEY, STRIPE_WEBHOOK_SECRET,
                   AUTH_SECRET, randomBytes, envVars, outside>>

\* A variant of TursoFailed that tries the creation again.
TursoFailed_Retry(printed) ==
    /\ ConsoleOut(printed \o << <<"error", "Failed to create Turso database:">> >>)
    /\ Goto("tursoDbCreate")

\* A variant of TursoFailed that stops without printing the error.
TursoFailed_Silent(printed) ==
    /\ ConsoleOut(printed)
    /\ ProcessExit(1)

\* A variant of TursoFailed that prints the error and goes on to the token
\* question.
TursoFailed_Continue(printed) ==
    /\ ConsoleOut(printed \o << <<"error", "Failed to create Turso database:">> >>)
    /\ Goto("authTokenQuestion")

\* The catch block of getTursoDatabaseInfo, after the lines already printed.
TursoFailed(printed) ==
    /\ ConsoleOut(printed \o << <<"error", "Failed to create Turso database:">> >>)
    /\ ProcessExit(1)

\* await execAsync(`turso db create ${dbName}`)
TursoDbCreate ==
    /\ pc = "tursoDbCreate"
    /\ \E ok \in BOOLEAN :
        /\ Exec("turso db create", dbName, ok, <<>>)
        /\ IF ok
           THEN /\ ConsoleOut(<< <<"log", "Creating Turso database: ${dbName}">>,
                                 <<"log", "Turso database '${dbName}' created successfully.">> >>)
                /\ Goto("tursoDbShow")
           ELSE TursoFailed(<< <<"log", "Creating Turso database: ${dbName}">> >>)
    /\ UNCHANGED <<prompts, locals, outside>>

\* await execAsync(`turso db show ${dbName} --url`); url = urlOutput.trim()
TursoDbShow ==
    /\ pc = "tursoDbShow"
    /\ \/ \E urlOutput \in UrlOutputs :
            /\ Exec("turso db show --url", dbName, TRUE, urlOutput)
            /\ TURSO_DATABASE_URL' = trim(urlOutput)
            /\ Goto("authTokenQuestion")
            /\ UNCHANGED log
       \/ /\ Exec("turso db show --url", dbName, FALSE, <<>>)
          /\ TursoFailed(<<>>)
          /\ UNCHANGED TURSO_DATABASE_URL
    /\ UNCHANGED <<prompts, dbChoice, dbName, isRemote, TURSO_AUTH_TOKEN,
                   STRIPE_SECRET_KEY, STRIPE_WEBHOOK_SECRET, AUTH_SECRET, randomBytes,
                   envVars, outside>>

\* await question("Enter your Turso authentication token: ");
\* return { url, isRemote: true, authToken }
AuthTokenQuestion ==
    /\ pc = "authTokenQuestion"
    /\ \E answer \in AuthTokenAnswers :
        /\ Ask("Enter your Turso authentication token: ", answer)
        /\ TURSO_AUTH_TOKEN' = answer
    /\ isRemote' = TRUE
    /\ Goto("getStripeSecretKey")
    /\ UNCHANGED <<cmds, log, dbChoice, dbName, TURSO_DATABASE_URL,
                   STRIPE_SECRET_KEY, STRIPE_WEBHOOK_SECRET, AUTH_SECRET, randomBytes,
                   envVars, outside>>

(***************************************************************************)
(* getStripeSecretKey and createStripeWebhook.                             *)
(***************************************************************************)
\* await question("Enter your Stripe Secret Key: ")
GetStripeSecretKey ==
    /\ pc = "getStripeSecretKey"
    /\ ConsoleOut(<< <<"log", "Step 3: Getting Stripe Secret Key">>,
                     <<"log", "You can find your Stripe Secret Key at: https://dashboard.stripe.com/test/apikeys">> >>)
    /\ \E answer \in SecretKeyAnswers :
        /\ Ask("Enter your Stripe Secret Key: ", answer)
        /\ STRIPE_SECRET_KEY' = answer
    /\ Goto("createStripeWebhook")
    /\ UNCHANGED <<cmds, dbChoice, dbName, TURSO_DATABASE_URL, isRemote,
                   TURSO_AUTH_TOKEN, STRIPE_WEBHOOK_SECRET, AUTH_SECRET, randomBytes,
                   envVars, outside>>

\* The lines the catch block of createStripeWebhook prints.
WebhookDiagnostic(platform) ==
    << <<"log", "Step 4: Creating Stripe webhook...">>,
       <<"error", "Failed to create Stripe webhook. Check your Stripe CLI installation and permissions.">> >>
    \o (IF platform = "win32"
        THEN << <<"log", "Note: On Windows, you may need to run this script as an administrator.">> >>
        ELSE <<>>)

\* A variant of WebhookFailed that prints and does not throw again, so
\* that createStripeWebhook returns undefined.
WebhookFailed_NoRethrow(platform) ==
    /\ ConsoleOut(WebhookDiagnostic(platform))
    /\ STRIPE_WEBHOOK_SECRET' = Undefined
    /\ Goto("generateAuthSecret")

\* The catch block of createStripeWebhook: print, then throw the error
\* again, which rejects main.
WebhookFailed(platform) ==
    /\ ConsoleOut(WebhookDiagnostic(platform))
    /\ pc' = "catch"
    /\ mainPromise' = "rejected"
    /\ UNCHANGED <<exitCode, STRIPE_WEBHOOK_SECRET>>

\* await execAsync("stripe listen --print-secret");
\* stdout.match(/whsec_[a-zA-Z0-9]+/)
CreateStripeWebhook ==
    /\ pc = "createStripeWebhook"
    /\ \/ \E stdout \in ListenOutputs :
            /\ Exec("stripe listen --print-secret", <<>>, TRUE, stdout)
            /\ IF HasMatch(stdout)
               THEN /\ ConsoleOut(<< <<"log", "Step 4: Creating Stripe webhook...">>,
                                     <<"log", "Stripe webhook created.">> >>)
                    /\ STRIPE_WEBHOOK_SECRET' = MatchText(stdout)
                    /\ Goto("generateAuthSecret")
               ELSE \E platform \in Platforms : WebhookFailed(platform)
       \/ /\ Exec("stripe listen --print-secret", <<>>, FALSE, <<>>)
          /\ \E platform \in Platforms : WebhookFailed(platform)
    /\ UNCHANGED <<prompts, dbChoice, dbName, TURSO_DATABASE_URL, isRemote,
                   TURSO_AUTH_TOKEN, STRIPE_SECRET_KEY, AUTH_SECRET, randomBytes, envVars,
                   outside>>

(***************************************************************************)
(* The rest of main, which runs without a further await.                   *)
(***************************************************************************)
\* A variant of IncludeAuthToken that adds the key on every path.
IncludeAuthToken_Always(remote, token) == TRUE

\* A variant of IncludeAuthToken that does not look at the token.
IncludeAuthToken_NoTokenCheck(remote, token) == remote

\* The condition under which main adds TURSO_AUTH_TOKEN to the mapping.
IncludeAuthToken(remote, token) == remote /\ Truthy(token)

\* The mapping main assembles.
AssembleEnvVars(url, secretKey, webhookSecret, authSecret, remote, token) ==
    << <<"TURSO_DATABASE_URL", url>>,
       <<"STRIPE_SECRET_KEY", secretKey>>,
       <<"STRIPE_WEBHOOK_SECRET", webhookSecret>>,
       <<"BASE_URL", BASE_URL>>,
       <<"AUTH_SECRET", authSecret>> >>
    \o (IF IncludeAuthToken(remote, token)
        THEN << <<"TURSO_AUTH_TOKEN", token>> >>
        ELSE <<>>)

\* generateAuthSecret(), the assembly of envVars and the end of main.
MainFinish ==
    /\ pc = "generateAuthSecret"
    /\ \E bytes \in RandomSamples :
        /\ randomBytes' = bytes
        /\ AUTH_SECRET' = generateAuthSecret(bytes)
        /\ envVars' = AssembleEnvVars(TURSO_DATABASE_URL, STRIPE_SECRET_KEY,
                                      STRIPE_WEBHOOK_SECRET, AUTH_SECRET',
                                      isRemote, TURSO_AUTH_TOKEN)
    /\ ConsoleOut(<< <<"log", "Step 5: Generating AUTH_SECRET...">>,
                     <<"log", "Setup completed successfully!">> >>)
    /\ mainPromise' = "fulfilled"
    /\ pc' = "ended"
    /\ UNCHANGED <<exitCode, cmds, prompts, dbChoice, dbName,
                   TURSO_DATABASE_URL, isRemote, TURSO_AUTH_TOKEN,
                   STRIPE_SECRET_KEY, STRIPE_WEBHOOK_SECRET, outside>>

\* main().catch(console.error): the rejection is printed; nothing is left
\* to run and the process ends with its exit status unchanged.
MainCatch ==
    /\ pc = "catch"
    /\ mainPromise = "rejected"
    /\ ConsoleOut(<< <<"error", "Error">> >>)
    /\ pc' = "ended"
    /\ UNCHANGED <<exitCode, mainPromise, cmds, prompts, locals, outside>>

\* Whether the process has stopped.
Stopped == pc \in {"exited", "ended"}

\* How the run ended.
Outcome ==
    IF pc = "exited" THEN "exit" ELSE mainPromise

\* The script is invoked again in the same working directory.
RunAgain ==
    /\ Stopped
    /\ run < MaxRuns
    /\ run' = run + 1
    /\ prevOutcome' = Outcome
    /\ envFileAtStart' = envFile
    /\ UNCHANGED envFile
    /\ pc' = "checkStripeCLI"
    /\ exitCode' = 0
    /\ mainPromise' = "pending"
    /\ cmds' = <<>>
    /\ prompts' = <<>>
    /\ log' = <<>>
    /\ dbChoice' = Undefined
    /\ dbName' = Undefined
    /\ TURSO_DATABASE_URL' = Undefined
    /\ isRemote' = FALSE
    /\ TURSO_AUTH_TOKEN' = Undefined
    /\ STRIPE_SECRET_KEY' = Undefined
    /\ STRIPE_WEBHOOK_SECRET' = Undefined
    /\ AUTH_SECRET' = Undefined
    /\ randomBytes' = <<>>
    /\ envVars' = <<>>

\* A step of the running process: a prompt is answered, a command exits,
\* or main goes on after an await.
ProcessStep ==
    \/ StripeVersionProbe
    \/ StripeAuthProbe
    \/ StripeAuthQuestion
    \/ StripeAuthVerify
    \/ DbChoiceQuestion
    \/ CheckTursoCLI
    \/ DbNameQuestion
    \/ TursoDbCreate
    \/ TursoDbShow
    \/ AuthTokenQuestion
    \/ GetStripeSecretKey
    \/ CreateStripeWebhook
    \/ MainFinish
    \/ MainCatch

(***************************************************************************)
(* writeEnvFile, called on its own with a mapping.                         *)
(***************************************************************************)
\* The largest number of entries of the mappings handed to writeEnvFile.
MaxEntries == 2

\* The keys and values of the mappings handed to writeEnvFile.
EntryKeys == {"BASE_URL", "AUTH_SECRET", "TURSO_DATABASE_URL"}

EntryValues == {<<>>, <<"v", "=", "1">>, <<"a", "\n", "b">>}

\* The mappings handed to writeEnvFile: at most MaxEntries entries, in any
\* insertion order, no key twice.
Mappings ==
    {m \in UNION {[1..n -> EntryKeys \X EntryValues] : n \in 0..MaxEntries} :
        \A i, j \in DOMAIN m : i # j => m[i][1] # m[j][1]}

\* What a failed fs.writeFile leaves behind: the file as it was, or the
\* file opened for writing and left empty.
AfterFailedWrite(file) == {file, [exists |-> TRUE, content |-> <<>>]}

\* A call of writeEnvFile is about to start.
InitWrite ==
    /\ pc = "writeEnvFile"
    /\ exitCode = 0
    /\ mainPromise = "pending"
    /\ cmds = <<>>
    /\ prompts = <<>>
    /\ log = <<>>
    /\ dbChoice = Undefined
    /\ dbName = Undefined
    /\ TURSO_DATABASE_URL = Undefined
    /\ isRemote = FALSE
    /\ TURSO_AUTH_TOKEN = Undefined
    /\ STRIPE_SECRET_KEY = Undefined
    /\ STRIPE_WEBHOOK_SECRET = Undefined
    /\ AUTH_SECRET = Undefined
    /\ randomBytes = <<>>
    /\ envVars \in Mappings
    /\ envFile \in InitialEnvFiles
    /\ envFileAtStart = envFile
    /\ run = 1
    /\ prevOutcome = "none"

\* writeEnvFile(envVars): await fs.writeFile(path.join(process.cwd(), ".env"), envContent)
WriteEnvFile ==
    /\ pc = "writeEnvFile"
    /\ \/ /\ envFile' = [exists |-> TRUE, content |-> envContent(envVars)]
          /\ ConsoleOut(<< <<"log", "Step 6: Writing environment variables to .env">>,
                           <<"log", ".env file created with the necessary variables.">> >>)
          /\ pc' = "written"
       \/ /\ envFile' \in AfterFailedWrite(envFile)
          /\ ConsoleOut(<< <<"log", "Step 6: Writing environment variables to .env">> >>)
          /\ pc' = "writeFailed"
    /\ UNCHANGED <<exitCode, mainPromise, cmds, prompts, locals,
                   envFileAtStart, run, prevOutcome>>

NextWrite == WriteEnvFile

SpecWrite == InitWrite /\ [][NextWrite]_vars

(***************************************************************************)
(* generateAuthSecret, called on its own.                                  *)
(***************************************************************************)
\* The largest step between two successive bytes of the buffers considered.
MaxStride == 1

\* Values of crypto.randomBytes(32) that put every byte value at every
\* position: the bytes b + k, b + 2k, ... modulo 256.
ByteBuffers ==
    {[i \in 1..AuthSecretBytes |-> (b + i * k) % 256] :
        b \in 0..255, k \in 0..MaxStride}

\* A call of generateAuthSecret is about to start.
InitSecret ==
    /\ pc = "generateAuthSecretCall"
    /\ exitCode = 0
    /\ mainPromise = "pending"
    /\ cmds = <<>>
    /\ prompts = <<>>
    /\ log = <<>>
    /\ dbChoice = Undefined
    /\ dbName = Undefined
    /\ TURSO_DATABASE_URL = Undefined
    /\ isRemote = FALSE
    /\ TURSO_AUTH_TOKEN = Undefined
    /\ STRIPE_SECRET_KEY = Undefined
    /\ STRIPE_WEBHOOK_SECRET = Undefined
    /\ AUTH_SECRET = Undefined
    /\ randomBytes = <<>>
    /\ envVars = <<>>
    /\ envFile \in InitialEnvFiles
    /\ envFileAtStart = envFile
    /\ run = 1
    /\ prevOutcome = "none"

\* generateAuthSecret(): crypto.randomBytes(32).toString("hex")
GenerateAuthSecret ==
    /\ pc = "generateAuthSecretCall"
    /\ \E bytes \in ByteBuffers :
        /\ randomBytes' = bytes
        /\ AUTH_SECRET' = generateAuthSecret(bytes)
    /\ ConsoleOut(<< <<"log", "Step 5: Generating AUTH_SECRET...">> >>)
    /\ pc' = "secretGenerated"
    /\ UNCHANGED <<exitCode, mainPromise, cmds, prompts, dbChoice, dbName,
                   TURSO_DATABASE_URL, isRemote, TURSO_AUTH_TOKEN,
                   STRIPE_SECRET_KEY, STRIPE_WEBHOOK_SECRET, envVars, outside>>

NextSecret == GenerateAuthSecret

SpecSecret == InitSecret /\ [][NextSecret]_vars

Next ==
    \/ StripeVersionProbe
    \/ StripeAuthProbe
    \/ StripeAuthQuestion
    \/ StripeAuthVerify
    \/ DbChoiceQuestion
    \/ CheckTursoCLI
    \/ DbNameQuestion
    \/ TursoDbCreate
    \/ TursoDbShow
    \/ AuthTokenQuestion
    \/ GetStripeSecretKey
    \/ CreateStripeWebhook
    \/ MainFinish
    \/ MainCatch
    \/ RunAgain

Spec == Init /\ [][Next]_vars

\* The runs in which every prompt is eventually answered and every
\* external command eventually exits.
LiveSpec == Spec /\ WF_vars(ProcessStep)

(***************************************************************************)
(* Observations on a run, used to state the properties.                    *)
(***************************************************************************)
\* The positions in cmds of the runs of command c.
CmdIndexes(c) == {i \in DOMAIN cmds : cmds[i].cmd = c}

\* Whether command c was run.
Ran(c) == CmdIndexes(c) # {}

\* The positions in prompts of the question q.
PromptIndexes(q) == {i \in DOMAIN prompts : prompts[i].query = q}

\* Whether question q was asked.
Asked(q) == PromptIndexes(q) # {}

QAuth == "Have you completed the authentication? (y/n): "

QChoice == "Do you want to use a local SQLite file (L) or a remote Turso database (R)? (L/R): "

QName == "Enter a name for your Turso database: "

QToken == "Enter your Turso authentication token: "

QSecretKey == "Enter your Stripe Secret Key: "

\* The keys every artifact must hold.
MandatoryKeys ==
    {"TURSO_DATABASE_URL", "STRIPE_SECRET_KEY", "STRIPE_WEBHOOK_SECRET",
     "BASE_URL", "AUTH_SECRET"}

\* The run is over, every command it ran succeeded and main returned.
FullySuccessfulRun ==
    /\ Stopped
    /\ mainPromise = "fulfilled"
    /\ \A i \in DOMAIN cmds : cmds[i].ok

\* The mapping has been assembled.
Assembled == envVars # <<>>

(***************************************************************************)
(* C1: when every prompt is answered and every external command succeeds   *)
(* with a matching webhook token, the file .env exists when the process    *)
(* ends and holds the five mandatory keys.                                 *)
(***************************************************************************)
C1_ArtifactWrittenOnSuccess ==
    FullySuccessfulRun =>
        /\ envFile.exists
        /\ MandatoryKeys \subseteq FileKeys(envFile.content)

(***************************************************************************)
(* C2: once the mapping is assembled, TURSO_AUTH_TOKEN is a key of it if   *)
(* and only if the remote data store was chosen, whatever the token        *)
(* (the empty string included).                                            *)
(***************************************************************************)
C2_TokenKeyIffRemote ==
    Assembled => (HasKey(envVars, "TURSO_AUTH_TOKEN") <=> isRemote)

\* C2 as amended: once the mapping is assembled, TURSO_AUTH_TOKEN is a key
\* of it if and only if the remote data store was chosen and the operator's
\* token is not the empty string.
C2_TokenKeyIffRemoteAndNonEmpty ==
    Assembled =>
        (HasKey(envVars, "TURSO_AUTH_TOKEN")
            <=> (isRemote /\ TURSO_AUTH_TOKEN # <<>>))

\* A run that chose the remote store, gave an empty token and assembled a
\* mapping without the key.
C2_Witness ==
    /\ Assembled
    /\ isRemote
    /\ TURSO_AUTH_TOKEN = <<>>
    /\ ~HasKey(envVars, "TURSO_AUTH_TOKEN")

(***************************************************************************)
(* C3: if `stripe --version` fails, the process exits with code 1 and      *)
(* nothing else happens in the run: no other command, no prompt, no        *)
(* secret, no mapping, no change of .env.                                  *)
(***************************************************************************)
VersionProbeFailed ==
    \E i \in CmdIndexes("stripe --version") : ~cmds[i].ok

C3_VersionFailureStopsEverything ==
    VersionProbeFailed =>
        /\ pc = "exited"
        /\ exitCode = 1
        /\ Len(cmds) = 1
        /\ prompts = <<>>
        /\ STRIPE_SECRET_KEY = Undefined
        /\ STRIPE_WEBHOOK_SECRET = Undefined
        /\ AUTH_SECRET = Undefined
        /\ envVars = <<>>
        /\ envFile = envFileAtStart

\* A run whose version probe failed and which has stopped.
C3_Witness ==
    /\ VersionProbeFailed
    /\ Stopped

(***************************************************************************)
(* C4: if `stripe listen --print-secret` succeeds and its output holds no  *)
(* match of whsec_[a-zA-Z0-9]+, createStripeWebhook throws, main is        *)
(* rejected, no auth secret is generated and .env is as it was when the    *)
(* run started.                                                            *)
(***************************************************************************)
ListenWithoutToken ==
    \E i \in CmdIndexes("stripe listen --print-secret") :
        /\ cmds[i].ok
        /\ MatchStarts(cmds[i].stdout) = {}

C4_NoTokenNoSecretNoWrite ==
    ListenWithoutToken =>
        /\ mainPromise = "rejected"
        /\ pc \in {"catch", "ended"}
        /\ STRIPE_WEBHOOK_SECRET = Undefined
        /\ AUTH_SECRET = Undefined
        /\ envVars = <<>>
        /\ envFile = envFileAtStart

\* A finished run whose webhook session printed the bare prefix.
C4_Witness ==
    /\ ListenWithoutToken
    /\ pc = "ended"
    /\ \E i \in CmdIndexes("stripe listen --print-secret") :
            cmds[i].stdout = WhsecPrefix

(***************************************************************************)
(* C5: every run in which a step fails ends with a non-zero exit status,   *)
(* a failing webhook command and a missing webhook token included.         *)
(***************************************************************************)
SomeStepFailed == pc = "exited" \/ mainPromise = "rejected"

C5_FailureExitsNonZero ==
    (Stopped /\ SomeStepFailed) => exitCode # 0

(***************************************************************************)
(* C6: after two consecutive fully successful runs the file .env holds     *)
(* exactly the keys and values the second run produced.                    *)
(***************************************************************************)
C6_SecondRunReplacesArtifact ==
    (run >= 2 /\ prevOutcome = "fulfilled" /\ FullySuccessfulRun) =>
        /\ envFile.exists
        /\ envFile.content = envContent(envVars)

(***************************************************************************)
(* C7: `stripe config --list` runs at most twice and the authentication    *)
(* question is asked at most once, and only after the first probe failed;  *)
(* an answer other than y or Y exits with code 1 without a second probe;   *)
(* an answer of y or Y runs the probe exactly once more, and its failure   *)
(* exits with code 1 with no further question or probe.                    *)
(***************************************************************************)
AuthProbes == CmdIndexes("stripe config --list")

\* The answer to the authentication question, once it was asked.
AuthAnswer == prompts[CHOOSE i \in PromptIndexes(QAuth) : TRUE].answer

C7_OneRemediationOneRecheck ==
    /\ Cardinality(AuthProbes) <= 2
    /\ Cardinality(PromptIndexes(QAuth)) <= 1
    /\ Asked(QAuth) =>
        /\ AuthProbes # {}
        /\ ~cmds[Min(AuthProbes)].ok
        /\ IF AuthAnswer \in {<<"y">>, <<"Y">>}
           THEN /\ pc # "stripeAuthVerify" => Cardinality(AuthProbes) = 2
                /\ (Cardinality(AuthProbes) = 2 /\ ~cmds[Len(cmds)].ok
                        /\ cmds[Len(cmds)].cmd = "stripe config --list") =>
                    /\ pc = "exited"
                    /\ exitCode = 1
                    /\ Len(prompts) = 1
           ELSE /\ pc = "exited"
                /\ exitCode = 1
                /\ Cardinality(AuthProbes) = 1
                /\ Len(prompts) = 1
    /\ Cardinality(AuthProbes) = 2 => Asked(QAuth)

\* A run in which the operator answered Y and the second probe failed.
C7_Witness ==
    /\ Asked(QAuth)
    /\ AuthAnswer = <<"Y">>
    /\ Cardinality(AuthProbes) = 2
    /\ ~cmds[Len(cmds)].ok
    /\ pc = "exited"

(***************************************************************************)
(* C8: on the remote path, if `turso db create` fails, the process exits   *)
(* with code 1, the command was run exactly once, and nothing follows: no  *)
(* URL fetch, no token or secret-key question, no webhook, no file write.  *)
(***************************************************************************)
CreateFailed == \E i \in CmdIndexes("turso db create") : ~cmds[i].ok

C8_CreateFailureIsFatal ==
    CreateFailed =>
        /\ pc = "exited"
        /\ exitCode = 1
        /\ Cardinality(CmdIndexes("turso db create")) = 1
        /\ cmds[Len(cmds)].cmd = "turso db create"
        /\ ~Ran("turso db show --url")
        /\ ~Ran("stripe listen --print-secret")
        /\ ~Asked(QToken)
        /\ ~Asked(QSecretKey)
        /\ prompts[Len(prompts)].query = QName
        /\ envVars = <<>>
        /\ envFile = envFileAtStart

\* A run that took the remote path, failed to create the database and
\* stopped.
C8_Witness ==
    /\ CreateFailed
    /\ ~IsLocalChoice(dbChoice)
    /\ Stopped

(***************************************************************************)
(* C9: when the operator answers l or L, getTursoDatabaseInfo returns      *)
(* file:dev.db with isRemote false and no token, runs no turso command,    *)
(* asks nothing more, and cannot stop the process: the run goes on to the  *)
(* secret-key question.                                                    *)
(***************************************************************************)
LocalChosen == dbChoice \in {<<"l">>, <<"L">>}

C9_LocalPathIsImmediate ==
    LocalChosen =>
        /\ TURSO_DATABASE_URL = LocalDbUrl
        /\ ~isRemote
        /\ TURSO_AUTH_TOKEN = Undefined
        /\ dbName = Undefined
        /\ ~Ran("turso --version")
        /\ ~Ran("turso db create")
        /\ ~Ran("turso db show --url")
        /\ ~Asked(QName)
        /\ ~Asked(QToken)
        /\ Cardinality(PromptIndexes(QChoice)) = 1
        /\ pc # "exited"
        /\ IF pc = "getStripeSecretKey"
           THEN prompts[Len(prompts)].query = QChoice
           ELSE /\ Asked(QSecretKey)
                /\ \A i \in PromptIndexes(QSecretKey) :
                        i > 1 /\ prompts[i - 1].query = QChoice

\* A run that answered L and has reached the webhook step.
C9_Witness ==
    /\ dbChoice = <<"L">>
    /\ pc = "createStripeWebhook"

(***************************************************************************)
(* C10: every value of the assembled mapping is a non-empty string,        *)
(* whatever the operator answers and the commands print.                   *)
(***************************************************************************)
IsNonEmptyString(v) == v # Undefined /\ v # <<>>

C10_AllValuesNonEmpty ==
    Assembled => \A i \in DOMAIN envVars : IsNonEmptyString(envVars[i][2])

\* C10 as amended: every value of the assembled mapping is a string, and
\* it is non-empty unless it is STRIPE_SECRET_KEY, which is the operator's
\* answer as typed, or TURSO_DATABASE_URL on the remote path, which is the
\* trimmed output of the URL fetch.
C10_ValuesNonEmptyExceptKeyAndRemoteUrl ==
    Assembled =>
        \A i \in DOMAIN envVars :
            /\ envVars[i][2] # Undefined
            /\ \/ envVars[i][1] = "STRIPE_SECRET_KEY"
               \/ envVars[i][1] = "TURSO_DATABASE_URL" /\ isRemote
               \/ envVars[i][2] # <<>>

\* A mapping assembled on the remote path from an empty secret key, an
\* empty token and a blank URL output.
C10_Witness ==
    /\ Assembled
    /\ isRemote
    /\ STRIPE_SECRET_KEY = <<>>
    /\ TURSO_AUTH_TOKEN = <<>>
    /\ TURSO_DATABASE_URL = <<>>
    /\ \E i \in DOMAIN envVars : envVars[i] = <<"TURSO_DATABASE_URL", <<>> >>

(***************************************************************************)
(* C11: no value of the assembled mapping contains a newline, so the       *)
(* serialized artifact has one line per key, whatever the URL fetch        *)
(* prints (several lines of text included).                                *)
(***************************************************************************)
HasNewline(v) == \E i \in DOMAIN v : v[i] = "\n"

\* The number of newline characters of a text.
NewlineCount(text) == Cardinality({i \in DOMAIN text : text[i] = "\n"})

C11_NoValueHasNewline ==
    Assembled =>
        /\ \A i \in DOMAIN envVars : ~HasNewline(envVars[i][2])
        /\ NewlineCount(envContent(envVars)) = Len(envVars) - 1

\* C11 as amended: no value of the assembled mapping other than
\* TURSO_DATABASE_URL on the remote path contains a newline; that URL holds
\* every newline that lies between the first and the last non-blank
\* character of the URL-fetch output; the serialized mapping has one line
\* per key exactly when the URL holds no newline.
C11_OnlyRemoteUrlMayHaveNewline ==
    Assembled =>
        /\ \A i \in DOMAIN envVars :
            \/ envVars[i][1] = "TURSO_DATABASE_URL" /\ isRemote
            \/ ~HasNewline(envVars[i][2])
        /\ NewlineCount(envContent(envVars))
                = Len(envVars) - 1 + NewlineCount(TURSO_DATABASE_URL)
        /\ isRemote =>
            \A i \in CmdIndexes("turso db show --url") :
                HasNewline(TURSO_DATABASE_URL) <=>
                    \E b \in DOMAIN cmds[i].stdout :
                        /\ cmds[i].stdout[b] = "\n"
                        /\ \E a \in 1..(b - 1) :
                                cmds[i].stdout[a] \notin WhiteSpace
                        /\ \E c \in (b + 1)..Len(cmds[i].stdout) :
                                cmds[i].stdout[c] \notin WhiteSpace

\* A mapping assembled from a URL-fetch output of two lines of text.
C11_Witness ==
    /\ Assembled
    /\ isRemote
    /\ HasNewline(TURSO_DATABASE_URL)
    /\ NewlineCount(envContent(envVars)) = Len(envVars)

(***************************************************************************)
(* C12: writeEnvFile serializes a mapping of n entries as exactly n lines  *)
(* KEY=value, in insertion order, separated by single newlines, with no    *)
(* trailing newline, and what it writes replaces the former content of     *)
(* .env.                                                                   *)
(***************************************************************************)
RECURSIVE EntryOffset(_, _)
\* Where entry i starts in the text of a mapping: every earlier entry takes
\* its key, the sign =, its value and one newline.
EntryOffset(m, i) ==
    IF i = 1 THEN 1
    ELSE EntryOffset(m, i - 1) + Len(m[i - 1][2]) + 3

\* The text holds the entries of m as KEY=value in insertion order, one
\* newline between two entries, nothing before, between or after them.
IsSerializationOf(text, m) ==
    /\ Len(text) = IF m = <<>> THEN 0
                   ELSE EntryOffset(m, Len(m)) + Len(m[Len(m)][2]) + 1
    /\ \A i \in DOMAIN m :
        LET o == EntryOffset(m, i)
            v == m[i][2]
        IN  /\ text[o] = m[i][1]
            /\ text[o + 1] = "="
            /\ \A k \in DOMAIN v : text[o + 1 + k] = v[k]
            /\ i < Len(m) => text[o + 2 + Len(v)] = "\n"

\* The number of lines of a text.
LineCount(text) == IF text = <<>> THEN 0 ELSE NewlineCount(text) + 1

C12_ExactlyOneLinePerEntry ==
    pc = "written" =>
        /\ envFile.exists
        /\ IsSerializationOf(envFile.content, envVars)
        /\ LineCount(envFile.content) = Len(envVars)

\* C12 as amended: writeEnvFile writes the n entries as KEY=value in
\* insertion order, separated by single newlines, with no trailing newline,
\* in place of the former content of .env; these are exactly n lines when
\* no value contains a newline, and one line more for every newline inside
\* a value otherwise.
C12_SerializesEntriesInOrder ==
    pc = "written" =>
        /\ envFile.exists
        /\ IsSerializationOf(envFile.content, envVars)
        /\ (\A i \in DOMAIN envVars : ~HasNewline(envVars[i][2])) =>
                LineCount(envFile.content) = Len(envVars)

\* A mapping of two entries without newlines written over an older file.
C12_Witness ==
    /\ pc = "written"
    /\ envFileAtStart.exists
    /\ envFileAtStart.content # envFile.content
    /\ Len(envVars) = 2
    /\ \A i \in DOMAIN envVars : ~HasNewline(envVars[i][2])
    /\ LineCount(envFile.content) = 2

(***************************************************************************)
(* C13: on the remote path TURSO_DATABASE_URL is the output of the URL     *)
(* fetch with all leading and trailing white space removed and nothing     *)
(* else changed; two spaces, libsql://example.turso.io, two spaces and a   *)
(* newline give exactly libsql://example.turso.io.                         *)
(***************************************************************************)
ExampleUrlOutput ==
    <<" ", " ", "l", "i", "b", "s", "q", "l", ":", "/", "/", "e", "x", "a", "m", "p", "l", "e", ".", "t", "u", "r", "s", "o", ".", "i", "o", " ", " ", "\n">>

ExampleUrl ==
    <<"l", "i", "b", "s", "q", "l", ":", "/", "/", "e", "x", "a", "m", "p", "l", "e", ".", "t", "u", "r", "s", "o", ".", "i", "o">>

\* u is out without its leading and trailing white space: out is blanks,
\* then u, then blanks, and u neither starts nor ends with a blank.
IsTrimmed(u, out) ==
    /\ u # <<>> => (u[1] \notin WhiteSpace /\ u[Len(u)] \notin WhiteSpace)
    /\ \E a \in 0..Len(out) :
        /\ a + Len(u) <= Len(out)
        /\ \A k \in 1..a : out[k] \in WhiteSpace
        /\ \A k \in DOMAIN u : out[a + k] = u[k]
        /\ \A k \in (a + Len(u) + 1)..Len(out) : out[k] \in WhiteSpace

\* The URL fetch of the run has succeeded.
UrlFetched == \E i \in CmdIndexes("turso db show --url") : cmds[i].ok

C13_UrlIsTrimmedOutput ==
    UrlFetched =>
        \A i \in CmdIndexes("turso db show --url") :
            /\ IsTrimmed(TURSO_DATABASE_URL, cmds[i].stdout)
            /\ cmds[i].stdout = ExampleUrlOutput => TURSO_DATABASE_URL = ExampleUrl
            /\ Assembled => envVars[1] = <<"TURSO_DATABASE_URL", TURSO_DATABASE_URL>>

\* A mapping assembled after the URL fetch printed the example output.
C13_Witness ==
    /\ Assembled
    /\ isRemote
    /\ \E i \in CmdIndexes("turso db show --url") :
            cmds[i].stdout = ExampleUrlOutput
    /\ TURSO_DATABASE_URL = ExampleUrl

(***************************************************************************)
(* C14: generateAuthSecret returns exactly 64 characters, each one of      *)
(* 0-9 and a-f, that are the hexadecimal encoding of the 32 bytes drawn,   *)
(* whatever the bytes.                                                     *)
(***************************************************************************)
\* The value of a lower-case hexadecimal digit.
HexValue(c) ==
    IF \E d \in DOMAIN Digits : Digits[d] = c
    THEN (CHOOSE d \in DOMAIN Digits : Digits[d] = c) - 1
    ELSE 9 + (CHOOSE d \in 1..6 : LowerCase[d] = c)

IsLowerHexDigit(c) ==
    \/ \E d \in DOMAIN Digits : Digits[d] = c
    \/ \E d \in 1..6 : LowerCase[d] = c

C14_SecretIs64HexChars ==
    AUTH_SECRET # Undefined =>
        /\ Len(randomBytes) = 32
        /\ Len(AUTH_SECRET) = 64
        /\ \A i \in DOMAIN AUTH_SECRET : IsLowerHexDigit(AUTH_SECRET[i])
        /\ \A i \in DOMAIN randomBytes :
                16 * HexValue(AUTH_SECRET[2 * i - 1]) + HexValue(AUTH_SECRET[2 * i])
                    = randomBytes[i]

\* A secret generated from the bytes 9, 10, ..., 40.
C14_Witness ==
    /\ pc = "secretGenerated"
    /\ randomBytes[1] = 9
    /\ randomBytes[2] = 10
    /\ randomBytes[AuthSecretBytes] = 40
    /\ SubSeq(AUTH_SECRET, 1, 4) = <<"0", "9", "0", "a">>

(***************************************************************************)
(* C15: the steps run one at a time in the order Preflight, Resource       *)
(* Provisioner, Secret Collector, Webhook Registrar, Secret Generator,     *)
(* Configuration Writer, each only after the steps before it completed     *)
(* successfully; the secret key is never asked for before the data-store   *)
(* result is there, and the auth secret is never generated before a        *)
(* webhook token was extracted.                                            *)
(***************************************************************************)
\* The lines that announce the steps, in the order of the workflow.
StepMarkers ==
    <<"Step 1: Checking if Stripe CLI is installed and authenticated...",
      "Step 2: Setting up Database",
      "Step 3: Getting Stripe Secret Key",
      "Step 4: Creating Stripe webhook...",
      "Step 5: Generating AUTH_SECRET...",
      "Step 6: Writing environment variables to .env">>

\* The positions in the output of the line that announces step n.
StepLines(n) == {i \in DOMAIN log : log[i][2] = StepMarkers[n]}

Started(n) == StepLines(n) # {}

\* Some run of command c succeeded.
Succeeded(c) == \E i \in CmdIndexes(c) : cmds[i].ok

\* The data-store result is available to main.
DataStoreResult ==
    /\ TURSO_DATABASE_URL # Undefined
    /\ \/ ~isRemote /\ TURSO_DATABASE_URL = LocalDbUrl /\ ~Ran("turso --version")
       \/ /\ isRemote
          /\ Succeeded("turso --version")
          /\ Succeeded("turso db create")
          /\ Succeeded("turso db show --url")
          /\ Asked(QToken)

\* A webhook token was extracted from the output of the webhook session.
TokenExtracted ==
    /\ STRIPE_WEBHOOK_SECRET # Undefined
    /\ Len(STRIPE_WEBHOOK_SECRET) > Len(WhsecPrefix)
    /\ SubSeq(STRIPE_WEBHOOK_SECRET, 1, Len(WhsecPrefix)) = WhsecPrefix
    /\ \E i \in CmdIndexes("stripe listen --print-secret") :
        /\ cmds[i].ok
        /\ \E a \in DOMAIN cmds[i].stdout :
            SubSeq(cmds[i].stdout, a, a + Len(STRIPE_WEBHOOK_SECRET) - 1)
                = STRIPE_WEBHOOK_SECRET

C15_StepsInOrder ==
    /\ \A n \in DOMAIN StepMarkers : Cardinality(StepLines(n)) <= 1
    /\ \A n \in 2..Len(StepMarkers) :
        Started(n) =>
            /\ Started(n - 1)
            /\ \A i \in StepLines(n - 1), j \in StepLines(n) : i < j
    /\ Started(2) =>
        /\ Succeeded("stripe --version")
        /\ Succeeded("stripe config --list")
    /\ Asked(QSecretKey) => DataStoreResult
    /\ Started(3) => DataStoreResult
    /\ Started(4) => (Asked(QSecretKey) /\ STRIPE_SECRET_KEY # Undefined)
    /\ Ran("stripe listen --print-secret") => Asked(QSecretKey)
    /\ AUTH_SECRET # Undefined => TokenExtracted
    /\ Started(5) => TokenExtracted
    /\ Assembled => AUTH_SECRET # Undefined
    /\ Started(6) => Assembled

\* A run on the remote path that went through the five steps main runs.
C15_Witness ==
    /\ Started(5)
    /\ isRemote
    /\ Assembled
    /\ Stopped

(***************************************************************************)
(* C16: if every prompt is eventually answered and every external command  *)
(* eventually exits, every run terminates, after at most five prompts and  *)
(* at most seven external commands.                                        *)
(***************************************************************************)
C16_RunsTerminate ==
    /\ [](Len(prompts) <= 5 /\ Len(cmds) <= 7)
    /\ (~Stopped) ~> Stopped

\* A finished run that asked five questions and ran seven commands.
C16_Witness ==
    /\ Stopped
    /\ Len(prompts) = 5
    /\ Len(cmds) = 7

(***************************************************************************)
(* C17: on every failing run a line that describes the failure is printed  *)
(* before the process stops, on every path to process.exit(1) and on       *)
(* every path that rejects main.                                           *)
(***************************************************************************)
\* The texts printed so far.
Printed == {log[i][2] : i \in DOMAIN log}

\* The line the code prints for the failure that stops the run with
\* process.exit(1): the last command run is the one that failed.
ExitDiagnostic ==
    LET last == cmds[Len(cmds)].cmd
    IN  CASE last = "stripe --version" ->
                "Stripe CLI is not installed. Please install it and try again."
          [] last = "stripe config --list" /\ Cardinality(AuthProbes) = 1 ->
                "Please authenticate with Stripe CLI and run this script again."
          [] last = "stripe config --list" /\ Cardinality(AuthProbes) = 2 ->
                "Failed to verify Stripe CLI authentication. Please try again."
          [] last = "turso --version" ->
                "Turso CLI is not installed. Please install it and try again."
          [] last \in {"turso db create", "turso db show --url"} ->
                "Failed to create Turso database:"
          [] OTHER -> "none"

C17_FailureIsExplained ==
    /\ pc = "exited" =>
        /\ cmds # <<>>
        /\ ~cmds[Len(cmds)].ok
        /\ ExitDiagnostic # "none"
        /\ ExitDiagnostic \in Printed
    /\ mainPromise = "rejected" =>
        "Failed to create Stripe webhook. Check your Stripe CLI installation and permissions."
            \in Printed
    /\ (pc = "ended" /\ mainPromise = "rejected") => log[Len(log)] = <<"error", "Error">>

\* A run stopped by a failed URL fetch, with the error printed.
C17_Witness ==
    /\ pc = "exited"
    /\ cmds[Len(cmds)].cmd = "turso db show --url"
    /\ "Failed to create Turso database:" \in Printed

(***************************************************************************)
(* C18: on the remote path `turso --version` runs before the name is       *)
(* asked for and before any `turso db` command; if it fails the process    *)
(* exits with code 1, asks for no name and creates nothing; the tool has   *)
(* no authentication probe and no remediation question.                    *)
(***************************************************************************)
\* The remote path was taken: the choice was answered, not with l or L.
RemoteChosen == dbChoice # Undefined /\ ~LocalChosen

TursoVersionFailed == \E i \in CmdIndexes("turso --version") : ~cmds[i].ok

\* The commands of the script.
ScriptCommands ==
    {"stripe --version", "stripe config --list", "turso --version",
     "turso db create", "turso db show --url", "stripe listen --print-secret"}

C18_TursoProbeFirst ==
    /\ RemoteChosen => (pc = "checkTursoCLI" \/ Ran("turso --version"))
    /\ Cardinality(CmdIndexes("turso --version")) <= 1
    /\ Asked(QName) => Succeeded("turso --version")
    /\ \A i \in CmdIndexes("turso db create") \cup CmdIndexes("turso db show --url") :
            \E j \in CmdIndexes("turso --version") : j < i /\ cmds[j].ok
    /\ TursoVersionFailed =>
        /\ pc = "exited"
        /\ exitCode = 1
        /\ cmds[Len(cmds)].cmd = "turso --version"
        /\ ~Asked(QName)
        /\ ~Ran("turso db create")
        /\ ~Ran("turso db show --url")
        /\ prompts[Len(prompts)].query = QChoice
    /\ \A i \in DOMAIN cmds : cmds[i].cmd \in ScriptCommands
    /\ \A j \in CmdIndexes("turso --version") :
        /\ \A i \in AuthProbes : i < j
        /\ \A i \in (j + 1)..Len(cmds) :
                cmds[i].cmd \in {"turso db create", "turso db show --url",
                                 "stripe listen --print-secret"}
    /\ \A i \in PromptIndexes(QAuth) : \A j \in PromptIndexes(QChoice) : i < j

\* A run on the remote path stopped by a failed version probe.
C18_Witness ==
    /\ RemoteChosen
    /\ TursoVersionFailed
    /\ Stopped

(***************************************************************************)
(* C19: on the remote path, if the creation succeeds and the URL fetch     *)
(* fails, the process exits with code 1, asks for no token, runs no later  *)
(* step, and issues no command that deletes the database it created.       *)
(***************************************************************************)
ShowFailed == \E i \in CmdIndexes("turso db show --url") : ~cmds[i].ok

C19_ShowFailureIsFatalNoRollback ==
    ShowFailed =>
        /\ pc = "exited"
        /\ exitCode = 1
        /\ Len(cmds) >= 2
        /\ cmds[Len(cmds)].cmd = "turso db show --url"
        /\ cmds[Len(cmds) - 1].cmd = "turso db create"
        /\ cmds[Len(cmds) - 1].ok
        /\ cmds[Len(cmds)].arg = cmds[Len(cmds) - 1].arg
        /\ Cardinality(CmdIndexes("turso db create")) = 1
        /\ Cardinality(CmdIndexes("turso db show --url")) = 1
        /\ \A i \in DOMAIN cmds : cmds[i].cmd \in ScriptCommands
        /\ ~Asked(QToken)
        /\ ~Asked(QSecretKey)
        /\ ~Ran("stripe listen --print-secret")
        /\ prompts[Len(prompts)].query = QName
        /\ TURSO_DATABASE_URL = Undefined
        /\ TURSO_AUTH_TOKEN = Undefined
        /\ AUTH_SECRET = Undefined
        /\ envVars = <<>>
        /\ envFile = envFileAtStart

\* A run stopped by a failed URL fetch after the database was created.
C19_Witness ==
    /\ ShowFailed
    /\ Succeeded("turso db create")
    /\ Stopped

(***************************************************************************)
(* C20: the local path is taken only when the answer to the data-store     *)
(* question is exactly l or L; every other answer takes the remote path:   *)
(* `turso --version` runs and, if it succeeds, `turso db create` is        *)
(* issued, and the question is not asked a second time.                    *)
(***************************************************************************)
\* getTursoDatabaseInfo returned the local result.
LocalTaken ==
    /\ TURSO_DATABASE_URL = LocalDbUrl
    /\ ~isRemote
    /\ ~Ran("turso --version")
    /\ pc \notin {"checkTursoCLI", "dbNameQuestion", "tursoDbCreate",
                  "tursoDbShow", "authTokenQuestion"}

\* getTursoDatabaseInfo went on to checkTursoCLI.
RemoteTaken == pc = "checkTursoCLI" \/ Ran("turso --version")

C20_LocalOnlyOnLetterL ==
    /\ Cardinality(PromptIndexes(QChoice)) <= 1
    /\ Asked(QChoice) =>
        /\ dbChoice = prompts[CHOOSE i \in PromptIndexes(QChoice) : TRUE].answer
        /\ LocalTaken <=> dbChoice \in {<<"l">>, <<"L">>}
        /\ RemoteTaken <=> dbChoice \notin {<<"l">>, <<"L">>}
        /\ Succeeded("turso --version") =>
            \/ pc \in {"dbNameQuestion", "tursoDbCreate"}
            \/ Ran("turso db create")
    /\ RemoteTaken => Asked(QChoice)

\* Runs that answered with the empty string, and with two letters l, and
\* issued the creation command.
C20_Witness ==
    /\ dbChoice \in {<<>>, <<"l", "l">>}
    /\ Ran("turso db create")

====
